---- MODULE Spec2Model ----
(***************************************************************************)
(* Bitwise AND on the fixed-width signed integer Int<LIMBS> of             *)
(* crypto-bigint (src/int/bit_and.rs): the inherent methods, the BitAnd /  *)
(* BitAndAssign operator bindings on Int<LIMBS>, and the same bindings on  *)
(* Wrapping<Int<LIMBS>>.                                                   *)
(*                                                                         *)
(* A value of the crate is a record that keeps the nesting of the Rust     *)
(* newtypes: Limb(Word), Uint { limbs }, Int(Uint), Wrapping(Int).  Field  *)
(* f0 stands for Rust's `.0`, a Word is a natural number below 2^BITS and  *)
(* limbs[1] is the least significant limb.  Every function of the source   *)
(* file is an operator that returns the value the function returns         *)
(* together with the chain of functions of the file entered to compute it. *)
(* The unsigned collaborator (Uint::bitand, Uint::bitand_limb,             *)
(* Limb::bitand) and ConstCtOption live in other files of the crate and    *)
(* are written from their contract.                                        *)
(***************************************************************************)
EXTENDS Integers, Sequences, FiniteSets

\* ------------------------------------------------------------------ bounds
\* Widest limb explored, in bits (the crate's Limb is 32 or 64 bits wide).
MaxLimbBits == 2
\* Largest limb count LIMBS explored.
MaxLimbs == 2
\* Widest operand (LIMBS * BITS bits) explored where two operands are drawn.
MaxWidth == 6
\* Widest operand (LIMBS * BITS bits) explored where three operands are drawn.
MaxTripleWidth == 4
\* Frames of operator bindings a call may nest before the stack is exhausted.
MaxCallDepth == 5

VARIABLES
    BITS,    \* width of a Limb in this run
    LIMBS,   \* the const generic LIMBS of this run
    lhs,     \* the caller's left binding: an Int or a Wrapping<Int>
    rhs,     \* the caller's right binding: an Int, a Wrapping<Int> or a Limb
    third,   \* a third binding, used by the three-operand laws only
    call,    \* the last call made: [fn, self, rhs], the operands as passed
    ret,     \* what the last call returned
    chain    \* the functions of the file the last call entered, in order

vars == <<BITS, LIMBS, lhs, rhs, third, call, ret, chain>>

\* ------------------------------------------------------------- data model
RECURSIVE Pow2(_)
Pow2(n) == IF n = 0 THEN 1 ELSE 2 * Pow2(n - 1)

Limb(word) == [ty |-> "Limb", f0 |-> word]

\* The values of a Limb of `bits` bits.
LimbSet(bits) == {Limb(w) : w \in 0 .. (Pow2(bits) - 1)}

Limb_ZERO == Limb(0)

Limb_ONE == Limb(1)

\* Limb::MAX: every bit of the word set.
Limb_MAX(bits) == Limb(Pow2(bits) - 1)

\* The unit value `()` and the absence of a value.
Unit == [ty |-> "Unit"]

None == [ty |-> "None"]

Uint(limbs) == [ty |-> "Uint", limbs |-> limbs]

IntOf(uint) == [ty |-> "Int", f0 |-> uint]

Wrapping(int) == [ty |-> "Wrapping", f0 |-> int]

UintSet(bits, n) == {Uint(l) : l \in [1 .. n -> LimbSet(bits)]}

IntSet(bits, n) == {IntOf(u) : u \in UintSet(bits, n)}

WrappingSet(bits, n) == {Wrapping(i) : i \in IntSet(bits, n)}

\* ConstCtOption::some(value): the value with the presence flag set.
ConstCtOption_some(value) == [ty |-> "ConstCtOption", value |-> value, is_some |-> 1]

\* ConstCtOption::unwrap: the value when present, a panic otherwise.
ConstCtOption_unwrap(opt) == IF opt.is_some = 1 THEN opt.value ELSE [ty |-> "Panic"]

\* Int::ZERO, Int::ONE, Int::MINUS_ONE, Int::MAX for a given width.
Int_ZERO(bits, n) == IntOf(Uint([i \in 1 .. n |-> Limb_ZERO]))

Int_ONE(bits, n) == IntOf(Uint([i \in 1 .. n |-> IF i = 1 THEN Limb_ONE ELSE Limb_ZERO]))

Int_MINUS_ONE(bits, n) == IntOf(Uint([i \in 1 .. n |-> Limb_MAX(bits)]))

Int_MAX(bits, n) ==
    IntOf(Uint([i \in 1 .. n |-> IF i = n THEN Limb(Pow2(bits - 1) - 1) ELSE Limb_MAX(bits)]))

\* ------------------------------------------------- the unsigned collaborator
\* The machine AND of two words, bit by bit from the least significant bit.
RECURSIVE WordAnd(_, _)
WordAnd(p, q) ==
    IF p = 0 \/ q = 0 THEN 0
    ELSE (p % 2) * (q % 2) + 2 * WordAnd(p \div 2, q \div 2)

\* Limb::bitand: Limb(self.0 & rhs.0).
Limb_bitand(self, other) == Limb(WordAnd(self.f0, other.f0))

\* Uint::bitand: limbs[i] = self.limbs[i] & rhs.limbs[i] for every i < LIMBS.
Uint_bitand(self, other) ==
    Uint([i \in DOMAIN self.limbs |-> Limb_bitand(self.limbs[i], other.limbs[i])])

\* Uint::bitand_limb: limbs[i] = self.limbs[i] & rhs for every i < LIMBS.
Uint_bitand_limb(self, limb) ==
    Uint([i \in DOMAIN self.limbs |-> Limb_bitand(self.limbs[i], limb)])

\* ------------------------------------------------------- calls and returns
\* A function that returns `val` having entered only itself.
Leaf(fn, val) == [val |-> val, chain |-> <<fn>>]

\* A call that never returns: the bindings nested beyond the stack.
Overflow == [val |-> [ty |-> "StackOverflow"], chain |-> <<>>]

Returned(r) == r.val.ty # "StackOverflow"

\* Function `fn` returning what its callee `r` returned.
Enter(fn, r) == [val |-> r.val, chain |-> <<fn>> \o r.chain]

\* Function `fn` returning Some(what its callee `r` returned).
EnterSome(fn, r) ==
    [val |-> IF Returned(r) THEN ConstCtOption_some(r.val) ELSE r.val,
     chain |-> <<fn>> \o r.chain]

\* Function `fn` returning Wrapping(what its callee `r` returned).
EnterWrapping(fn, r) ==
    [val |-> IF Returned(r) THEN Wrapping(r.val) ELSE r.val, chain |-> <<fn>> \o r.chain]

\* ------------------------------------------------- impl Int<LIMBS> (inherent)
\* A faulty Int::bitand: the limbs ORed.
Int_bitand_or(self, other) ==
    Leaf("Int::bitand",
         IntOf(Uint([i \in DOMAIN self.f0.limbs |->
                     Limb(self.f0.limbs[i].f0 + other.f0.limbs[i].f0
                            - WordAnd(self.f0.limbs[i].f0, other.f0.limbs[i].f0))])))

\* A faulty Int::bitand: the low limb of rhs ANDed into every limb.
Int_bitand_low_limb(self, other) ==
    Leaf("Int::bitand", IntOf(Uint_bitand_limb(self.f0, other.f0.limbs[1])))

\* Self(Uint::bitand(&self.0, &rhs.0))
Int_bitand(self, other) == Leaf("Int::bitand", IntOf(Uint_bitand(self.f0, other.f0)))

\* A faulty Int::bitand_limb: rhs zero-extended, ANDed into the low limb only.
Int_bitand_limb_low_only(self, limb) ==
    Leaf("Int::bitand_limb",
         IntOf(Uint([i \in DOMAIN self.f0.limbs |->
                     IF i = 1 THEN Limb_bitand(self.f0.limbs[i], limb)
                     ELSE Limb_ZERO])))

\* Self(Uint::bitand_limb(&self.0, rhs))
Int_bitand_limb(self, limb) ==
    Leaf("Int::bitand_limb", IntOf(Uint_bitand_limb(self.f0, limb)))

\* A faulty Int::wrapping_and: self.bitand(self).
Int_wrapping_and_self(self, other) == Enter("Int::wrapping_and", Int_bitand(self, self))

\* self.bitand(rhs)
Int_wrapping_and(self, other) == Enter("Int::wrapping_and", Int_bitand(self, other))

\* A faulty Int::checked_and: the presence flag left clear.
Int_checked_and_absent(self, other) ==
    LET r == Int_bitand(self, other)
    IN  [val |-> [ConstCtOption_some(r.val) EXCEPT !.is_some = 0],
         chain |-> <<"Int::checked_and">> \o r.chain]

\* ConstCtOption::some(self.bitand(rhs))
Int_checked_and(self, other) ==
    EnterSome("Int::checked_and", Int_bitand(self, other))

\* -------------------------------------------- impl BitAnd for Int<LIMBS>
\* `d` is the number of frames left on the stack.  A method call picks its
\* callee by the receiver's type: a receiver of type Int finds the by-value
\* BitAnd::bitand before the inherent bitand(&self), a receiver of type &Int
\* finds the inherent one.
RECURSIVE BitAnd_Int_Int(_, _, _)

\* (&self).bitand(rhs): the inherent Int::bitand.
BitAnd_Int_RefInt(self, other, d) ==
    IF d = 0 THEN Overflow
    ELSE Enter("<Int as BitAnd<&Int>>::bitand", Int_bitand(self, other))

\* A faulty value & value: self.bitand(rhs), which is this binding again.
BitAnd_Int_Int_unborrowed(self, other, d) ==
    IF d = 0 THEN Overflow
    ELSE Enter("<Int as BitAnd<Int>>::bitand", BitAnd_Int_Int(self, other, d - 1))

\* self.bitand(&rhs) with self: Int: BitAnd<&Int> for Int.
BitAnd_Int_Int(self, other, d) ==
    IF d = 0 THEN Overflow
    ELSE Enter("<Int as BitAnd<Int>>::bitand", BitAnd_Int_RefInt(self, other, d - 1))

\* self.bitand(&rhs) with self: &Int: the inherent Int::bitand.
BitAnd_RefInt_Int(self, other, d) ==
    IF d = 0 THEN Overflow
    ELSE Enter("<&Int as BitAnd<Int>>::bitand", Int_bitand(self, other))

\* self.bitand(rhs) with self: &Int: the inherent Int::bitand.
BitAnd_RefInt_RefInt(self, other, d) ==
    IF d = 0 THEN Overflow
    ELSE Enter("<&Int as BitAnd<&Int>>::bitand", Int_bitand(self, other))

\* *self = *self & other, other: Int.  The value returned is the one stored.
BitAndAssign_Int_Int(self, other, d) ==
    IF d = 0 THEN Overflow
    ELSE Enter("<Int as BitAndAssign<Int>>::bitand_assign",
               BitAnd_Int_Int(self, other, d - 1))

\* *self = *self & other, other: &Int.
BitAndAssign_Int_RefInt(self, other, d) ==
    IF d = 0 THEN Overflow
    ELSE Enter("<Int as BitAndAssign<&Int>>::bitand_assign",
               BitAnd_Int_RefInt(self, other, d - 1))

\* ---------------------------------- impl BitAnd for Wrapping<Int<LIMBS>>
\* Each binding is Wrapping(self.0.bitand(&rhs.0)); the receiver self.0 has
\* type Int, so the call is BitAnd<&Int> for Int.

\* A faulty Wrapping & Wrapping: Wrapping(self.0.bitand(&self.0)).
BitAnd_Wrapping_Wrapping_lhs_only(self, other, d) ==
    IF d = 0 THEN Overflow
    ELSE EnterWrapping("<Wrapping as BitAnd<Wrapping>>::bitand",
                       BitAnd_Int_RefInt(self.f0, self.f0, d - 1))

BitAnd_Wrapping_Wrapping(self, other, d) ==
    IF d = 0 THEN Overflow
    ELSE EnterWrapping("<Wrapping as BitAnd<Wrapping>>::bitand",
                       BitAnd_Int_RefInt(self.f0, other.f0, d - 1))

BitAnd_Wrapping_RefWrapping(self, other, d) ==
    IF d = 0 THEN Overflow
    ELSE EnterWrapping("<Wrapping as BitAnd<&Wrapping>>::bitand",
                       BitAnd_Int_RefInt(self.f0, other.f0, d - 1))

BitAnd_RefWrapping_Wrapping(self, other, d) ==
    IF d = 0 THEN Overflow
    ELSE EnterWrapping("<&Wrapping as BitAnd<Wrapping>>::bitand",
                       BitAnd_Int_RefInt(self.f0, other.f0, d - 1))

BitAnd_RefWrapping_RefWrapping(self, other, d) ==
    IF d = 0 THEN Overflow
    ELSE EnterWrapping("<&Wrapping as BitAnd<&Wrapping>>::bitand",
                       BitAnd_Int_RefInt(self.f0, other.f0, d - 1))

\* *self = *self & other, other: Wrapping<Int>.
BitAndAssign_Wrapping_Wrapping(self, other, d) ==
    IF d = 0 THEN Overflow
    ELSE Enter("<Wrapping as BitAndAssign<Wrapping>>::bitand_assign",
               BitAnd_Wrapping_Wrapping(self, other, d - 1))

\* *self = *self & other, other: &Wrapping<Int>.
BitAndAssign_Wrapping_RefWrapping(self, other, d) ==
    IF d = 0 THEN Overflow
    ELSE Enter("<Wrapping as BitAndAssign<&Wrapping>>::bitand_assign",
               BitAnd_Wrapping_RefWrapping(self, other, d - 1))

\* ----------------------------------------------------------------- states
\* The pairs <<BITS, LIMBS>> explored, up to `cap` bits in all.  A signed integer has a sign bit and at
\* least one value bit, so that ONE differs from the sign bit: the one-bit
\* width is left out.
WidthsUpTo(cap) ==
    {wn \in (1 .. MaxLimbBits) \X (1 .. MaxLimbs) : wn[1] * wn[2] >= 2 /\ wn[1] * wn[2] <= cap}

Widths == WidthsUpTo(MaxWidth)

NoCall == [fn |-> "none", self |-> None, rhs |-> None]

Start(bits, n, a, b, c) ==
    /\ BITS = bits
    /\ LIMBS = n
    /\ lhs = a
    /\ rhs = b
    /\ third = c
    /\ call = NoCall
    /\ ret = None
    /\ chain = <<>>

IsInt(v) == v.ty = "Int"

IsLimb(v) == v.ty = "Limb"

IsWrapping(v) == v.ty = "Wrapping"

\* A call that leaves the caller's bindings as they are.
Called(fn, r) ==
    /\ call' = [fn |-> fn, self |-> lhs, rhs |-> rhs]
    /\ ret' = r.val
    /\ chain' = r.chain
    /\ UNCHANGED <<BITS, LIMBS, lhs, rhs, third>>

\* ------------------------------------------- Spec: the inherent methods
Init ==
    \E wn \in Widths :
        \E a \in IntSet(wn[1], wn[2]) :
            \E b \in IntSet(wn[1], wn[2]) \cup LimbSet(wn[1]) :
                Start(wn[1], wn[2], a, b, None)

Call_bitand == IsInt(rhs) /\ Called("Int::bitand", Int_bitand(lhs, rhs))

Call_bitand_limb == IsLimb(rhs) /\ Called("Int::bitand_limb", Int_bitand_limb(lhs, rhs))

Call_wrapping_and == IsInt(rhs) /\ Called("Int::wrapping_and", Int_wrapping_and(lhs, rhs))

Call_checked_and == IsInt(rhs) /\ Called("Int::checked_and", Int_checked_and(lhs, rhs))

Next ==
    \/ Call_bitand
    \/ Call_bitand_limb
    \/ Call_wrapping_and
    \/ Call_checked_and

Spec == Init /\ [][Next]_vars

\* --------------------------- SpecOps: the operator bindings on Int<LIMBS>
\* A compound assignment: the value the binding computed is stored in the
\* caller's left binding; nothing is stored when the call does not return.
Assigned(fn, r) ==
    /\ call' = [fn |-> fn, self |-> lhs, rhs |-> rhs]
    /\ lhs' = IF Returned(r) THEN r.val ELSE lhs
    /\ ret' = IF Returned(r) THEN Unit ELSE r.val
    /\ chain' = r.chain
    /\ UNCHANGED <<BITS, LIMBS, rhs, third>>

InitOps ==
    \E wn \in Widths :
        \E a \in IntSet(wn[1], wn[2]) :
            \E b \in IntSet(wn[1], wn[2]) :
                Start(wn[1], wn[2], a, b, None)

\* lhs & rhs
Op_Int_Int ==
    /\ IsInt(lhs) /\ IsInt(rhs)
    /\ Called("Int & Int", BitAnd_Int_Int(lhs, rhs, MaxCallDepth))

\* lhs & &rhs
Op_Int_RefInt ==
    /\ IsInt(lhs) /\ IsInt(rhs)
    /\ Called("Int & &Int", BitAnd_Int_RefInt(lhs, rhs, MaxCallDepth))

\* &lhs & rhs
Op_RefInt_Int ==
    /\ IsInt(lhs) /\ IsInt(rhs)
    /\ Called("&Int & Int", BitAnd_RefInt_Int(lhs, rhs, MaxCallDepth))

\* &lhs & &rhs
Op_RefInt_RefInt ==
    /\ IsInt(lhs) /\ IsInt(rhs)
    /\ Called("&Int & &Int", BitAnd_RefInt_RefInt(lhs, rhs, MaxCallDepth))

\* lhs &= rhs
OpAssign_Int_Int ==
    /\ IsInt(lhs) /\ IsInt(rhs)
    /\ Assigned("Int &= Int", BitAndAssign_Int_Int(lhs, rhs, MaxCallDepth))

\* lhs &= &rhs
OpAssign_Int_RefInt ==
    /\ IsInt(lhs) /\ IsInt(rhs)
    /\ Assigned("Int &= &Int", BitAndAssign_Int_RefInt(lhs, rhs, MaxCallDepth))

NextOps ==
    \/ Op_Int_Int
    \/ Op_Int_RefInt
    \/ Op_RefInt_Int
    \/ Op_RefInt_RefInt
    \/ OpAssign_Int_Int
    \/ OpAssign_Int_RefInt

SpecOps == InitOps /\ [][NextOps]_vars

\* --------------- SpecWrapping: the operator bindings on Wrapping<Int<LIMBS>>
InitWrapping ==
    \E wn \in Widths :
        \E a \in WrappingSet(wn[1], wn[2]) :
            \E b \in WrappingSet(wn[1], wn[2]) :
                Start(wn[1], wn[2], a, b, None)

Op_Wrapping_Wrapping ==
    /\ IsWrapping(lhs) /\ IsWrapping(rhs)
    /\ Called("Wrapping & Wrapping", BitAnd_Wrapping_Wrapping(lhs, rhs, MaxCallDepth))

Op_Wrapping_RefWrapping ==
    /\ IsWrapping(lhs) /\ IsWrapping(rhs)
    /\ Called("Wrapping & &Wrapping", BitAnd_Wrapping_RefWrapping(lhs, rhs, MaxCallDepth))

Op_RefWrapping_Wrapping ==
    /\ IsWrapping(lhs) /\ IsWrapping(rhs)
    /\ Called("&Wrapping & Wrapping", BitAnd_RefWrapping_Wrapping(lhs, rhs, MaxCallDepth))

Op_RefWrapping_RefWrapping ==
    /\ IsWrapping(lhs) /\ IsWrapping(rhs)
    /\ Called("&Wrapping & &Wrapping", BitAnd_RefWrapping_RefWrapping(lhs, rhs, MaxCallDepth))

OpAssign_Wrapping_Wrapping ==
    /\ IsWrapping(lhs) /\ IsWrapping(rhs)
    /\ Assigned("Wrapping &= Wrapping",
       BitAndAssign_Wrapping_Wrapping(lhs, rhs, MaxCallDepth))

OpAssign_Wrapping_RefWrapping ==
    /\ IsWrapping(lhs) /\ IsWrapping(rhs)
    /\ Assigned("Wrapping &= &Wrapping",
       BitAndAssign_Wrapping_RefWrapping(lhs, rhs, MaxCallDepth))

NextWrapping ==
    \/ Op_Wrapping_Wrapping
    \/ Op_Wrapping_RefWrapping
    \/ Op_RefWrapping_Wrapping
    \/ Op_RefWrapping_RefWrapping
    \/ OpAssign_Wrapping_Wrapping
    \/ OpAssign_Wrapping_RefWrapping

SpecWrapping == InitWrapping /\ [][NextWrapping]_vars

\* ------------------------ SpecLaws: Int::bitand applied to three operands
TripleWidths == WidthsUpTo(MaxTripleWidth)

Pair(left, right) == [ty |-> "Pair", left |-> left, right |-> right]

InitLaws ==
    \E wn \in TripleWidths :
        \E a \in IntSet(wn[1], wn[2]) :
            \E b \in IntSet(wn[1], wn[2]) :
                \E c \in IntSet(wn[1], wn[2]) :
                    Start(wn[1], wn[2], a, b, c)

\* lhs.bitand(&rhs) beside rhs.bitand(&lhs)
Eval_swapped ==
    /\ IsInt(lhs) /\ IsInt(rhs) /\ IsInt(third)
    /\ Called("x.bitand(y), y.bitand(x)",
       Leaf("eval", Pair(Int_bitand(lhs, rhs).val, Int_bitand(rhs, lhs).val)))

\* lhs.bitand(&rhs).bitand(&third) beside lhs.bitand(&rhs.bitand(&third))
Eval_regrouped ==
    /\ IsInt(lhs) /\ IsInt(rhs) /\ IsInt(third)
    /\ Called("x.bitand(y).bitand(z), x.bitand(y.bitand(z))",
       Leaf("eval", Pair(Int_bitand(Int_bitand(lhs, rhs).val, third).val,
       Int_bitand(lhs, Int_bitand(rhs, third).val).val)))

\* lhs.bitand(&lhs)
Eval_squared ==
    /\ IsInt(lhs) /\ IsInt(rhs) /\ IsInt(third)
    /\ Called("x.bitand(x)", Leaf("eval", Int_bitand(lhs, lhs).val))

NextLaws ==
    \/ Eval_swapped
    \/ Eval_regrouped
    \/ Eval_squared

SpecLaws == InitLaws /\ [][NextLaws]_vars

\* =================================================================== claims
\* Reading a value: bit j of a limb, the two's-complement value of an Int.
LimbBit(limb, j) == (limb.f0 \div Pow2(j)) % 2

RECURSIVE UnsignedValue(_, _, _)
UnsignedValue(limbs, bits, i) ==
    IF i > Len(limbs) THEN 0
    ELSE limbs[i].f0 + Pow2(bits) * UnsignedValue(limbs, bits, i + 1)

SignedValue(x) ==
    LET u == UnsignedValue(x.f0.limbs, BITS, 1)
    IN  IF u >= Pow2(BITS * LIMBS - 1) THEN u - Pow2(BITS * LIMBS) ELSE u

\* An Int of this run's width: LIMBS limbs, each a word below 2^BITS.
HasWidth(x) ==
    /\ x.ty = "Int"
    /\ x.f0.ty = "Uint"
    /\ DOMAIN x.f0.limbs = 1 .. LIMBS
    /\ \A i \in 1 .. LIMBS :
           x.f0.limbs[i].ty = "Limb" /\ x.f0.limbs[i].f0 \in 0 .. (Pow2(BITS) - 1)

SignBit(x) == LimbBit(x.f0.limbs[LIMBS], BITS - 1)

\* The Int whose every limb is `limb`, and the Int that is `limb` zero-extended.
Broadcast(limb) == IntOf(Uint([i \in 1 .. LIMBS |-> limb]))

ZeroExtended(limb) == IntOf(Uint([i \in 1 .. LIMBS |-> IF i = 1 THEN limb ELSE Limb_ZERO]))

\* What Int::bitand returns for the operands of the last call.
BitandOfCall == Int_bitand(call.self, call.rhs).val

\* C1: Int::bitand(a, b) has exactly LIMBS limbs, and bit j of its limb i is 1
\* exactly when bit j of limb i is 1 in both a and b, for every limb and every
\* bit of the width, the sign bit included.
C1_BitandIsLimbwiseAnd ==
    call.fn = "Int::bitand" =>
        /\ HasWidth(ret)
        /\ \A i \in 1 .. LIMBS : \A j \in 0 .. (BITS - 1) :
               (LimbBit(ret.f0.limbs[i], j) = 1) <=>
                   (LimbBit(call.self.f0.limbs[i], j) = 1
                        /\ LimbBit(call.rhs.f0.limbs[i], j) = 1)

\* Two negative two-limb operands that differ in both limbs: the result keeps the
\* sign bit, and its low limb is the low limb of neither operand.
C1_Witness ==
    /\ call.fn = "Int::bitand"
    /\ LIMBS = 2 /\ BITS = 2
    /\ SignBit(call.self) = 1 /\ SignBit(call.rhs) = 1 /\ SignBit(ret) = 1
    /\ call.self.f0.limbs[2] # call.rhs.f0.limbs[2]
    /\ ret.f0.limbs[1] # call.self.f0.limbs[1]
    /\ ret.f0.limbs[1] # call.rhs.f0.limbs[1]

\* C2: Int::bitand_limb(x, m) ANDs m into every limb of x: it equals
\* Int::bitand(x, y) with y the Int whose every limb is m; and it differs from
\* the AND of x with m zero-extended exactly when a limb of x above the least
\* significant one shares a bit with m (which takes LIMBS > 1).
C2_BitandLimbBroadcasts ==
    call.fn = "Int::bitand_limb" =>
        /\ HasWidth(ret)
        /\ ret = Int_bitand(call.self, Broadcast(call.rhs)).val
        /\ (ret # Int_bitand(call.self, ZeroExtended(call.rhs)).val) <=>
               (\E i \in 2 .. LIMBS : \E j \in 0 .. (BITS - 1) :
                    LimbBit(call.self.f0.limbs[i], j) = 1 /\ LimbBit(call.rhs, j) = 1)

\* A two-limb x whose upper limb keeps a bit of m: not the zero-extended AND.
C2_Witness ==
    /\ call.fn = "Int::bitand_limb"
    /\ LIMBS = 2
    /\ ret.f0.limbs[2] # Limb_ZERO
    /\ ret.f0.limbs[2] # call.self.f0.limbs[2]
    /\ ret # Int_bitand(call.self, ZeroExtended(call.rhs)).val

\* C3: wrapping_and(x, y) equals bitand(x, y); checked_and(x, y) is present for
\* every input and holds bitand(x, y).
C3_WrappingCheckedAreBitand ==
    /\ call.fn = "Int::wrapping_and" => ret = BitandOfCall
    /\ call.fn = "Int::checked_and" =>
           /\ ret.ty = "ConstCtOption"
           /\ ret.is_some = 1
           /\ ret.value = BitandOfCall
           /\ ConstCtOption_unwrap(ret) = BitandOfCall

\* checked_and of two different operands, present, holding a third value.
C3_Witness ==
    /\ call.fn = "Int::checked_and"
    /\ ret.is_some = 1
    /\ ret.value # call.self /\ ret.value # call.rhs
    /\ ret.value # Int_ZERO(BITS, LIMBS)

\* The chain of the last call ends in the inherent Int::bitand and enters no
\* function twice.
ForwardsToBitand ==
    /\ Len(chain) >= 2
    /\ chain[Len(chain)] = "Int::bitand"
    /\ \A i \in 1 .. Len(chain) : \A j \in 1 .. Len(chain) :
           i # j => chain[i] # chain[j]

\* C4: each of the four AND operator bindings on Int returns, after a finite
\* chain of forwarding calls that ends in the inherent Int::bitand and repeats
\* no binding, exactly bitand(x, y), with both operands as they were; x &= y,
\* with y by value or by reference, leaves x equal to bitand(original x, y)
\* and y unchanged.
C4_IntOperatorsAreBitand ==
    /\ call.fn \in {"Int & Int", "Int & &Int", "&Int & Int", "&Int & &Int"} =>
           /\ ForwardsToBitand
           /\ ret = BitandOfCall
           /\ lhs = call.self /\ rhs = call.rhs
    /\ call.fn \in {"Int &= Int", "Int &= &Int"} =>
           /\ ForwardsToBitand
           /\ ret.ty = "Unit"
           /\ lhs = BitandOfCall
           /\ rhs = call.rhs

\* x &= y by value that changed x: assign, value & value, value & reference,
\* inherent bitand.
C4_Witness ==
    /\ call.fn = "Int &= Int"
    /\ lhs # call.self /\ lhs # rhs
    /\ chain = << "<Int as BitAndAssign<Int>>::bitand_assign",
                  "<Int as BitAnd<Int>>::bitand",
                  "<Int as BitAnd<&Int>>::bitand",
                  "Int::bitand" >>

\* C5: for every operand combination Wrapping(x) & Wrapping(y) is
\* Wrapping(bitand(x, y)), a Wrapping that holds the Int and nothing else, with
\* both operands as they were; w &= v leaves w equal to
\* Wrapping(bitand(original w.0, v.0)) and v unchanged.
C5_WrappingOperatorsAreBitand ==
    /\ call.fn \in {"Wrapping & Wrapping", "Wrapping & &Wrapping",
                    "&Wrapping & Wrapping", "&Wrapping & &Wrapping"} =>
           /\ ret.ty = "Wrapping"
           /\ DOMAIN ret = {"ty", "f0"}
           /\ ret.f0 = Int_bitand(call.self.f0, call.rhs.f0).val
           /\ lhs = call.self /\ rhs = call.rhs
    /\ call.fn \in {"Wrapping &= Wrapping", "Wrapping &= &Wrapping"} =>
           /\ ret.ty = "Unit"
           /\ lhs = Wrapping(Int_bitand(call.self.f0, call.rhs.f0).val)
           /\ rhs = call.rhs

\* Wrapping & Wrapping of two different operands giving a third, non-zero one.
C5_Witness ==
    /\ call.fn = "Wrapping & Wrapping"
    /\ ret.ty = "Wrapping"
    /\ ret # lhs /\ ret # rhs
    /\ ret.f0 # Int_ZERO(BITS, LIMBS)
    /\ LIMBS = 2

\* The value of x AND y as checked_and (unwrapped) and wrapping_and return it.
AndValue == IF call.fn = "Int::checked_and" THEN ConstCtOption_unwrap(ret) ELSE ret

\* C6: x AND ONE, by checked_and unwrapped and by wrapping_and, is ONE when the
\* least significant bit of x is set and ZERO otherwise; so ZERO & ONE = ZERO,
\* ONE & ONE = ONE and MAX & ONE = ONE.
C6_AndWithOne ==
    (call.fn \in {"Int::checked_and", "Int::wrapping_and"}
         /\ call.rhs = Int_ONE(BITS, LIMBS)) =>
        /\ AndValue = IF LimbBit(call.self.f0.limbs[1], 0) = 1
                      THEN Int_ONE(BITS, LIMBS) ELSE Int_ZERO(BITS, LIMBS)
        /\ call.self = Int_ZERO(BITS, LIMBS) => AndValue = Int_ZERO(BITS, LIMBS)
        /\ call.self = Int_ONE(BITS, LIMBS) => AndValue = Int_ONE(BITS, LIMBS)
        /\ call.self = Int_MAX(BITS, LIMBS) => AndValue = Int_ONE(BITS, LIMBS)

\* MAX.checked_and(&ONE) on a width where MAX is not ONE: MAX has the sign bit
\* clear and every other bit set.
C6_Witness ==
    /\ call.fn = "Int::checked_and"
    /\ call.rhs = Int_ONE(BITS, LIMBS)
    /\ call.self = Int_MAX(BITS, LIMBS)
    /\ call.self # Int_ONE(BITS, LIMBS)
    /\ SignedValue(call.self) = Pow2(BITS * LIMBS - 1) - 1
    /\ ConstCtOption_unwrap(ret) = Int_ONE(BITS, LIMBS)

\* C7: Int::bitand is commutative, associative and idempotent.
C7_BitandLaws ==
    /\ call.fn = "x.bitand(y), y.bitand(x)" => ret.left = ret.right
    /\ call.fn = "x.bitand(y).bitand(z), x.bitand(y.bitand(z))" => ret.left = ret.right
    /\ call.fn = "x.bitand(x)" => ret = call.self

\* Three different two-limb operands regrouped, the result none of them nor zero.
C7_Witness ==
    /\ call.fn = "x.bitand(y).bitand(z), x.bitand(y.bitand(z))"
    /\ LIMBS = 2 /\ BITS = 2
    /\ lhs # rhs /\ rhs # third /\ lhs # third
    /\ ret.left \notin {lhs, rhs, third, Int_ZERO(BITS, LIMBS)}
    /\ ret.left = ret.right

\* C8: bitand(x, all_ones) = x, all_ones being the two's-complement -1, and
\* bitand(x, zero) = zero; bitand_limb(x, m) = x when every bit of m is set, and
\* bitand_limb(x, m) = zero when m is the zero limb.
C8_IdentityAndAnnihilator ==
    /\ (call.fn = "Int::bitand" /\ call.rhs = Int_MINUS_ONE(BITS, LIMBS)) =>
           SignedValue(call.rhs) = -1 /\ ret = call.self
    /\ (call.fn = "Int::bitand" /\ call.rhs = Int_ZERO(BITS, LIMBS)) =>
           ret = Int_ZERO(BITS, LIMBS)
    /\ (call.fn = "Int::bitand_limb" /\ call.rhs = Limb_MAX(BITS)) => ret = call.self
    /\ (call.fn = "Int::bitand_limb" /\ call.rhs = Limb_ZERO) =>
           ret = Int_ZERO(BITS, LIMBS)

\* x & all_ones for a two-limb x that is neither zero nor all_ones.
C8_Witness ==
    /\ call.fn = "Int::bitand"
    /\ LIMBS = 2
    /\ call.rhs = Int_MINUS_ONE(BITS, LIMBS)
    /\ call.self \notin {Int_ZERO(BITS, LIMBS), Int_MINUS_ONE(BITS, LIMBS)}
    /\ ret = call.self

\* C10: bitand(x, y) is negative exactly when x and y both are; when y is not
\* negative, 0 <= bitand(x, y) <= y whatever the sign of x.
C10_SignOfBitand ==
    call.fn = "Int::bitand" =>
        /\ (SignedValue(ret) < 0) <=>
               (SignedValue(call.self) < 0 /\ SignedValue(call.rhs) < 0)
        /\ SignedValue(call.rhs) >= 0 =>
               (0 <= SignedValue(ret) /\ SignedValue(ret) <= SignedValue(call.rhs))

\* A negative x and a positive y: the result is positive and below y.
C10_Witness ==
    /\ call.fn = "Int::bitand"
    /\ SignedValue(call.self) < 0
    /\ SignedValue(call.rhs) > 0
    /\ SignedValue(ret) > 0
    /\ SignedValue(ret) < SignedValue(call.rhs)

====
